---- MODULE Spec2Model ----
(***************************************************************************)
(* The session work-queue supervisor of the worker service:                *)
(* WorkerService (src/src/services/worker-service.ts) with the pending     *)
(* message store, the session manager and the agent's processing loop it   *)
(* drives.  Durable state (pending_messages, sdk_sessions) survives a      *)
(* process death; everything else is rebuilt by the constructor.           *)
(***************************************************************************)
EXTENDS Integers, Sequences, FiniteSets, TLC

\* ---------------------------------------------------------------- bounds
NumSessions == 2
MaxItems == 2
MaxTasks == 3
MaxLimit == 1
MaxEvents == 3
MaxCalls == 2
MaxRequests == 1
NumObservers == 2

Sessions == 1..NumSessions
TaskIds == 1..MaxTasks
Passes == {"startup", "manual"}
Calls == 1..MaxCalls
Requests == 1..MaxRequests
Observers == 1..NumObservers

\* ------------------------------------------------------ program constants
\* new PendingMessageStore(db, 3): the retry maximum handed to the store
MaxRetriesOneMore == 3 + 1
MaxRetries == 3
\* const STUCK_THRESHOLD_MS = 5 * 60 * 1000
STUCK_THRESHOLD_MS == 5 * 60 * 1000
\* const staleThresholdMs = 30 * 60 * 1000 (processPendingQueues)
staleThresholdMs == 30 * 60 * 1000
\* const STALE_SESSION_THRESHOLD_MS = 30 * 60 * 1000 (periodic cleanup)
STALE_SESSION_THRESHOLD_MS == 30 * 60 * 1000
\* this.processPendingQueues(50) at the end of initializeBackground
StartupSessionLimit == 50

\* Granularity of the model's clock: time passes in steps of TickMs.
TickMs == 20 * 60 * 1000
\* Ages saturate one tick above the threshold they are compared with.
ItemAgeCap == STUCK_THRESHOLD_MS + TickMs
SessionAgeCap == staleThresholdMs + TickMs

VARIABLES
  msgs,        \* pending_messages rows in creation order (durable)
  dbStatus,    \* sdk_sessions.status per session, "none" when there is no row (durable)
  dbAge,       \* now - sdk_sessions.started_at_epoch, saturating (durable)
  sessions,    \* SessionManager's in-memory sessions
  task,        \* the running agent.startSession tasks
  ppq,         \* the processPendingQueues calls in progress and their results
  life,        \* the WorkerService's lifecycle position and its cleanupInterval
  events,      \* how many outside events (backend failure, cancellation, clock step,
               \* crash, recovery trigger) have happened so far
  shut,        \* the listener, the open store, the shutdown() calls in progress and
               \* what they have stopped and closed
  req,         \* the /api/context/inject requests in the early handler
  sse,         \* the clients of the SSE broadcaster and what each has been sent
  settings,    \* the provider settings the backend selection reads
  auth         \* a request at the authentication middleware and its outcome

vars == <<msgs, dbStatus, dbAge, sessions, task, ppq, life, events, shut, req, sse,
          settings, auth>>

Min(a, b) == IF a <= b THEN a ELSE b

NoTask == [sid |-> 0, pc |-> "none", item |-> 0, aborted |-> FALSE, agent |-> "none"]
NoSession == [tracked |-> FALSE, gen |-> 0, ctrl |-> 0, aborted |-> FALSE, idle |-> 0]
NoPass == [pc |-> "idle", limit |-> 0, orphanedSessionIds |-> <<>>, pos |-> 1,
           total |-> 0, started |-> 0, skipped |-> 0, ids |-> <<>>,
           nCall |-> 0, nFresh |-> 0, liveAtCall |-> FALSE,
           fault |-> "none", failing |-> {}]
NoCall == [pc |-> "idle", timedOut |-> FALSE]
NoShutdown == [listening |-> FALSE, storeOpen |-> FALSE,
               call |-> [c \in Calls |-> NoCall],
               timerStops |-> 0, storeCloses |-> 0, listenerCloses |-> 0,
               restartPending |-> FALSE, exit |-> "none"]
NoRequests == [r \in Requests |-> "none"]
NoStatus == [isProcessing |-> FALSE, queueDepth |-> 0]
NoObserver == [connected |-> FALSE, broken |-> FALSE, n |-> 0, status |-> NoStatus]
NoObservers == [o \in Observers |-> NoObserver]
NoHealth == [n |-> 0, status |-> NoStatus]
\* the providers the settings select and the providers that are available
DefaultSettings == [selected |-> {}, available |-> {}]
\* strings the middleware takes apart are sequences of characters
NoHeader == [present |-> FALSE, value |-> <<>>]
NoAuth == [ip |-> "", header |-> NoHeader, configuredToken |-> <<>>,
           outcome |-> "none", isLocal |-> FALSE]
NoViewers == [clients |-> NoObservers, health |-> NoHealth]

\* ------------------------------------------------------ PendingMessageStore
ItemIds(m) == 1..Len(m)
PendingOf(m, s) == {i \in ItemIds(m) : m[i].sid = s /\ m[i].status = "pending"}

\* claimNext: the oldest pending item of the session, 0 when there is none
claimNextNewest(m, s) ==
  IF PendingOf(m, s) = {} THEN 0
  ELSE CHOOSE i \in PendingOf(m, s) : \A j \in PendingOf(m, s) : j <= i
claimNext(m, s) ==
  IF PendingOf(m, s) = {} THEN 0
  ELSE CHOOSE i \in PendingOf(m, s) : \A j \in PendingOf(m, s) : i <= j

markProcessing(m, i) ==
  [m EXCEPT ![i].status = "processing", ![i].age = 0, ![i].claimed = TRUE]

markCompleted(m, i) == [m EXCEPT ![i].status = "completed", ![i].age = 0]

\* markFailed: one more retry; back to pending below the maximum, else failed
markFailedKeepsCount(m, i) == [m EXCEPT ![i].status = "pending", ![i].age = 0]
markFailed(m, i) ==
  IF m[i].retry + 1 < MaxRetries
  THEN [m EXCEPT ![i].retry = @ + 1, ![i].status = "pending", ![i].age = 0]
  ELSE [m EXCEPT ![i].retry = @ + 1, ![i].status = "failed", ![i].age = 0,
                 ![i].failedAt = TRUE]

IsStuck(r, thresholdMs) == r.status = "processing" /\ r.age > thresholdMs

\* resetStuckMessages: processing items claimed longer ago than the threshold
\* go back to pending, their retry count kept
resetStuckMessages(m, thresholdMs) ==
  [i \in ItemIds(m) |->
     IF IsStuck(m[i], thresholdMs)
     THEN [m[i] EXCEPT !.status = "pending", !.age = 0] ELSE m[i]]


\* The session of the oldest pending item, then the next one, ...
RECURSIVE PendingSessionsFrom(_, _, _)
PendingSessionsFrom(m, i, seen) ==
  IF i > Len(m) THEN <<>>
  ELSE IF m[i].status = "pending" /\ m[i].sid \notin seen
       THEN <<m[i].sid>> \o PendingSessionsFrom(m, i + 1, seen \cup {m[i].sid})
       ELSE PendingSessionsFrom(m, i + 1, seen)

getSessionsWithPendingMessages(m) == PendingSessionsFrom(m, 1, {})

getPendingCount(m, s) == Cardinality(PendingOf(m, s))

\* ------------------------------------------------------------ SessionManager
\* The bundle of state a start touches.
Bundle(se, tk, ds, da) == [sessions |-> se, task |-> tk, dbStatus |-> ds, dbAge |-> da]

\* initializeSession: the tracked session, or a new one in active status
initializeSession(b, s) ==
  IF b.sessions[s].tracked THEN b
  ELSE [b EXCEPT !.sessions[s] = [NoSession EXCEPT !.tracked = TRUE],
                 !.dbStatus[s] = "active",
                 !.dbAge[s] = IF b.dbStatus[s] = "none" THEN 0 ELSE @]

FreeTasks(tk) == {t \in TaskIds : tk[t].sid = 0}
FreshTask(tk) == CHOOSE t \in FreeTasks(tk) : \A u \in FreeTasks(tk) : t <= u
LiveTasks(tk, s) == {t \in TaskIds : tk[t].sid = s}

\* -------------------------------------------------------------- WorkerService
\* if (session.abortController.signal.aborted) session.abortController = new AbortController()
\* on the session record: ctrl counts the controllers made for it, aborted is
\* the state of the current one
AbortControllerKept(se) == se
AbortControllerForStart(se) ==
  IF se.aborted THEN [se EXCEPT !.ctrl = @ + 1, !.aborted = FALSE] ELSE se

\* getActiveAgent: Mistral, then OpenRouter, then Gemini, each when selected
\* and available; else the SDK agent.
isSelected(st, a) == a \in st.selected
isAvailable(st, a) == a \in st.available
getActiveAgentGeminiFirst(st) ==
  IF isSelected(st, "gemini") /\ isAvailable(st, "gemini") THEN "gemini"
  ELSE IF isSelected(st, "mistral") /\ isAvailable(st, "mistral") THEN "mistral"
  ELSE IF isSelected(st, "openrouter") /\ isAvailable(st, "openrouter") THEN "openrouter"
  ELSE "sdk"
getActiveAgent(st) ==
  IF isSelected(st, "mistral") /\ isAvailable(st, "mistral") THEN "mistral"
  ELSE IF isSelected(st, "openrouter") /\ isAvailable(st, "openrouter") THEN "openrouter"
  ELSE IF isSelected(st, "gemini") /\ isAvailable(st, "gemini") THEN "gemini"
  ELSE "sdk"

\* startSessionProcessor: the controller reset, then
\* session.generatorPromise = agent.startSession(session, this)...
startSessionProcessor(b, s) ==
  LET t == FreshTask(b.task)
      se == AbortControllerForStart(b.sessions[s])
  IN [b EXCEPT !.sessions[s] = [se EXCEPT !.gen = t],
               !.task[t] = [sid |-> s, pc |-> "claim", item |-> 0,
                            aborted |-> se.aborted,
                            agent |-> getActiveAgent(settings)]]

\* existingSession?.generatorPromise
NeverHasGenerator(se, s) == FALSE
HasGenerator(se, s) == se[s].tracked /\ se[s].gen # 0

\* .finally(() => { session.generatorPromise = null; ... })
FinallyKeepsHandle(se, s) == se
FinallyDetachOrDrop(se, s) ==
  IF se[s].gen = 0 THEN [se EXCEPT ![s] = NoSession] ELSE [se EXCEPT ![s].gen = 0]
FinallyDetach(se, s) == [se EXCEPT ![s].gen = 0]

\* The start loop of processPendingQueues from its current position up to its
\* next await (after a start) or its end. initializeSession throws for the
\* sessions in r.failing: the catch logs, counts the session as skipped and
\* the loop goes on.
RECURSIVE RunLoopUnlimited(_, _)
RunLoopUnlimited(r, b) ==
  IF r.pos > Len(r.orphanedSessionIds)
  THEN [r |-> [r EXCEPT !.pc = "done"], b |-> b]
  ELSE LET s == r.orphanedSessionIds[r.pos] IN
       IF HasGenerator(b.sessions, s)
       THEN RunLoopUnlimited([r EXCEPT !.skipped = @ + 1, !.pos = @ + 1], b)
       ELSE IF s \in r.failing
       THEN RunLoopUnlimited([r EXCEPT !.skipped = @ + 1, !.pos = @ + 1], b)
       ELSE [r |-> [r EXCEPT !.pc = "sleep", !.started = @ + 1,
                             !.ids = Append(@, s), !.pos = @ + 1],
             b |-> startSessionProcessor(initializeSession(b, s), s)]


RECURSIVE RunLoopSkipSpends(_, _)
RunLoopSkipSpends(r, b) ==
  IF r.pos > Len(r.orphanedSessionIds) \/ r.started + r.skipped >= r.limit
  THEN [r |-> [r EXCEPT !.pc = "done"], b |-> b]
  ELSE LET s == r.orphanedSessionIds[r.pos] IN
       IF HasGenerator(b.sessions, s)
       THEN RunLoopSkipSpends([r EXCEPT !.skipped = @ + 1, !.pos = @ + 1], b)
       ELSE IF s \in r.failing
       THEN RunLoopSkipSpends([r EXCEPT !.skipped = @ + 1, !.pos = @ + 1], b)
       ELSE [r |-> [r EXCEPT !.pc = "sleep", !.started = @ + 1,
                             !.ids = Append(@, s), !.pos = @ + 1],
             b |-> startSessionProcessor(initializeSession(b, s), s)]

RECURSIVE RunLoop(_, _)
RunLoop(r, b) ==
  IF r.pos > Len(r.orphanedSessionIds) \/ r.started >= r.limit
  THEN [r |-> [r EXCEPT !.pc = "done"], b |-> b]
  ELSE LET s == r.orphanedSessionIds[r.pos] IN
       IF HasGenerator(b.sessions, s)
       THEN RunLoop([r EXCEPT !.skipped = @ + 1, !.pos = @ + 1], b)
       ELSE IF s \in r.failing
       THEN RunLoop([r EXCEPT !.skipped = @ + 1, !.pos = @ + 1], b)
       ELSE [r |-> [r EXCEPT !.pc = "sleep", !.started = @ + 1,
                             !.ids = Append(@, s), !.pos = @ + 1],
             b |-> startSessionProcessor(initializeSession(b, s), s)]

\* The stale-session cleanup at the head of processPendingQueues:
\* sdk_sessions rows that are active and started before the threshold
StaleSessionIds(ds, da) ==
  {s \in Sessions : ds[s] = "active" /\ da[s] > staleThresholdMs}

FailPendingOf(m, ids) ==
  [i \in ItemIds(m) |->
     IF m[i].status = "pending" /\ m[i].sid \in ids
     THEN [m[i] EXCEPT !.status = "failed", !.failedAt = TRUE] ELSE m[i]]

coreReady == life.pc \in {"coreReady", "ready", "mcpFailed"}
\* The HTTP server accepts connections; the database is open.
Listening == shut.listening
StoreOpen == shut.storeOpen
ProcessRunning == life.pc \notin {"new", "stopped"}

\* SessionManager.isAnySessionProcessing, getTotalActiveWork and
\* getActiveSessionCount
isAnySessionProcessing(se) == \E s \in Sessions : se[s].tracked /\ se[s].gen # 0
getTotalActiveWork(m) ==
  Cardinality({i \in ItemIds(m) : m[i].status \in {"pending", "processing"}})
getActiveSessionCount(se) == Cardinality({s \in Sessions : se[s].tracked})

\* SSEBroadcaster.broadcast of a processing_status event: written to every
\* client connected at that moment; the write to a client whose connection is
\* broken fails and the others are written all the same.
broadcastStopsAtFailure(cl, st) ==
  [o \in Observers |->
     IF cl[o].connected /\ \A q \in Observers : q <= o => ~cl[q].broken
     THEN [cl[o] EXCEPT !.n = 1 - @, !.status = st] ELSE cl[o]]
broadcast(cl, st) ==
  [o \in Observers |->
     IF cl[o].connected /\ ~cl[o].broken
     THEN [cl[o] EXCEPT !.n = 1 - @, !.status = st] ELSE cl[o]]
addClient(cl, o) == [cl EXCEPT ![o].connected = TRUE]

broadcastActiveSessions(v, se, m) ==
  [v EXCEPT !.clients = broadcast(@, [isProcessing |-> isAnySessionProcessing(se),
                                      queueDepth |-> getActiveSessionCount(se)])]
broadcastProcessingStatus(v, se, m) ==
  [v EXCEPT !.clients = broadcast(@, [isProcessing |-> isAnySessionProcessing(se),
                                      queueDepth |-> getTotalActiveWork(m)])]

TypeOK ==
  /\ Len(msgs) <= MaxItems
  /\ \A i \in ItemIds(msgs) :
       /\ msgs[i].sid \in Sessions
       /\ msgs[i].status \in {"pending", "processing", "completed", "failed"}
       /\ msgs[i].retry \in 0..(MaxRetries + 1)
  /\ \A s \in Sessions : dbStatus[s] \in {"none", "active", "completed", "failed"}
  /\ \A t \in TaskIds : task[t].pc \in {"none", "claim", "backend"}

Init ==
  /\ msgs = <<>>
  /\ dbStatus = [s \in Sessions |-> "none"]
  /\ dbAge = [s \in Sessions |-> 0]
  /\ sessions = [s \in Sessions |-> NoSession]
  /\ task = [t \in TaskIds |-> NoTask]
  /\ ppq = [p \in Passes |-> NoPass]
  /\ life = [pc |-> "new", interval |-> FALSE, due |-> FALSE]
  /\ events = 0
  /\ shut = NoShutdown
  /\ req = NoRequests
  /\ sse = NoViewers
  /\ settings = DefaultSettings
  /\ auth = NoAuth

\* ------------------------------------------------------------------ actions
\* One more outside event, while the run's budget lasts.
Disturb == events < MaxEvents /\ events' = events + 1
NewItem(s) == [sid |-> s, status |-> "pending", retry |-> 0, age |-> 0,
               claimed |-> FALSE, failedAt |-> FALSE]

CurrentBundle == Bundle(sessions, task, dbStatus, dbAge)

InstallBundle(b) ==
  /\ sessions' = b.sessions
  /\ task' = b.task
  /\ dbStatus' = b.dbStatus
  /\ dbAge' = b.dbAge

\* ProcessingSupervisor.start as the submission path uses it: a no-op when a
\* live processor is attached
LiveProcessorAttached(se, s) == se[s].tracked /\ se[s].gen # 0

SupervisorStart(b, s) ==
  IF LiveProcessorAttached(b.sessions, s) THEN b ELSE startSessionProcessor(b, s)

\* Work submission: enqueue, look the session up or create it, start or reuse
\* its processor.
Submit(s) ==
  /\ coreReady
  /\ Listening
  /\ StoreOpen
  /\ Len(msgs) < MaxItems
  /\ FreeTasks(task) # {}
  /\ msgs' = Append(msgs, NewItem(s))
  /\ LET b1 == initializeSession(CurrentBundle, s)
         b2 == [b1 EXCEPT !.sessions[s].idle = 0]
     IN InstallBundle(SupervisorStart(b2, s))
  /\ UNCHANGED <<ppq, life, events>>
  /\ UNCHANGED <<shut, req, settings, auth, sse>>

\* The processor task leaves its loop: the promise settles and the .finally
\* callback of startSessionProcessor runs.
TaskExit(tk, t) == [tk EXCEPT ![t] = NoTask]

\* The loop's head: stop when cancelled; claim the next item; or, with nothing
\* to claim, complete the session and leave.
TaskClaimIgnoresCancel(t) ==
  /\ task[t].pc = "claim"
  /\ StoreOpen
  /\ LET s == task[t].sid
         i == claimNext(msgs, s)
     IN IF i = 0
        THEN /\ task' = TaskExit(task, t)
             /\ dbStatus' = [dbStatus EXCEPT ![s] = "completed"]
             /\ sessions' = FinallyDetach([sessions EXCEPT ![s] = NoSession], s)
             /\ UNCHANGED msgs
        ELSE /\ msgs' = markProcessing(msgs, i)
             /\ task' = [task EXCEPT ![t].pc = "backend", ![t].item = i]
             /\ sessions' = [sessions EXCEPT ![s].idle = 0]
             /\ UNCHANGED dbStatus
  /\ UNCHANGED <<dbAge, ppq, life, events>>
  /\ UNCHANGED <<shut, req, settings, auth>>
  /\ sse' = IF task'[t].sid = 0
            THEN broadcastProcessingStatus(sse, sessions', msgs') ELSE sse
TaskClaim(t) ==
  /\ task[t].pc = "claim"
  /\ StoreOpen
  /\ LET s == task[t].sid
         i == claimNext(msgs, s)
     IN IF task[t].aborted
        THEN /\ task' = TaskExit(task, t)
             /\ sessions' = FinallyDetach(sessions, s)
             /\ UNCHANGED <<msgs, dbStatus>>
        ELSE IF i = 0
        THEN /\ task' = TaskExit(task, t)
             /\ dbStatus' = [dbStatus EXCEPT ![s] = "completed"]
             /\ sessions' = FinallyDetach([sessions EXCEPT ![s] = NoSession], s)
             /\ UNCHANGED msgs
        ELSE /\ msgs' = markProcessing(msgs, i)
             /\ task' = [task EXCEPT ![t].pc = "backend", ![t].item = i]
             /\ sessions' = [sessions EXCEPT ![s].idle = 0]
             /\ UNCHANGED dbStatus
  /\ UNCHANGED <<dbAge, ppq, life, events>>
  /\ UNCHANGED <<shut, req, settings, auth>>
  /\ sse' = IF task'[t].sid = 0
            THEN broadcastProcessingStatus(sse, sessions', msgs') ELSE sse

\* The backend resolves for the item in flight.
TaskBackendOk(t) ==
  /\ task[t].pc = "backend"
  /\ StoreOpen
  /\ ~task[t].aborted
  /\ msgs' = markCompleted(msgs, task[t].item)
  /\ task' = [task EXCEPT ![t].pc = "claim", ![t].item = 0]
  /\ sessions' = [sessions EXCEPT ![task[t].sid].idle = 0]
  /\ UNCHANGED <<dbStatus, dbAge, ppq, life, events>>
  /\ UNCHANGED <<shut, req, settings, auth, sse>>

\* The backend rejects for the item in flight.
TaskBackendFailExits(t) ==
  /\ task[t].pc = "backend"
  /\ StoreOpen
  /\ ~task[t].aborted
  /\ msgs' = markFailed(msgs, task[t].item)
  /\ task' = TaskExit(task, t)
  /\ sessions' = FinallyDetach(sessions, task[t].sid)
  /\ UNCHANGED <<dbStatus, dbAge, ppq, life>>
  /\ Disturb
  /\ UNCHANGED <<shut, req, settings, auth, sse>>
TaskBackendFail(t) ==
  /\ task[t].pc = "backend"
  /\ StoreOpen
  /\ ~task[t].aborted
  /\ msgs' = markFailed(msgs, task[t].item)
  /\ task' = [task EXCEPT ![t].pc = "claim", ![t].item = 0]
  /\ sessions' = [sessions EXCEPT ![task[t].sid].idle = 0]
  /\ UNCHANGED <<dbStatus, dbAge, ppq, life>>
  /\ Disturb
  /\ UNCHANGED <<shut, req, settings, auth, sse>>

\* The backend of a worker whose every call is rejected: the same handling,
\* as the ordinary course of that worker and not as an outside event.
TaskBackendFailing(t) ==
  /\ task[t].pc = "backend"
  /\ StoreOpen
  /\ ~task[t].aborted
  /\ msgs' = markFailed(msgs, task[t].item)
  /\ task' = [task EXCEPT ![t].pc = "claim", ![t].item = 0]
  /\ sessions' = [sessions EXCEPT ![task[t].sid].idle = 0]
  /\ UNCHANGED <<dbStatus, dbAge, ppq, life, events>>
  /\ UNCHANGED <<shut, req, settings, auth, sse>>

\* Cancellation observed during the backend call: the loop stops and the item
\* in flight is left as it is.
TaskCancelledMarksFailed(t) ==
  /\ task[t].pc = "backend"
  /\ task[t].aborted
  /\ task' = TaskExit(task, t)
  /\ sessions' = FinallyDetach(sessions, task[t].sid)
  /\ msgs' = markFailed(msgs, task[t].item)
  /\ UNCHANGED <<dbStatus, dbAge, ppq, life, events>>
  /\ UNCHANGED <<shut, req, settings, auth>>
  /\ sse' = broadcastProcessingStatus(sse, sessions', msgs')
TaskCancelled(t) ==
  /\ task[t].pc = "backend"
  /\ task[t].aborted
  /\ task' = TaskExit(task, t)
  /\ sessions' = FinallyDetach(sessions, task[t].sid)
  /\ UNCHANGED <<msgs, dbStatus, dbAge, ppq, life, events>>
  /\ UNCHANGED <<shut, req, settings, auth>>
  /\ sse' = broadcastProcessingStatus(sse, sessions', msgs')

\* agent.startSession rejects outright (the backend process is gone): the
\* .catch of startSessionProcessor logs it and the .finally runs; the item in
\* flight is left as it is.
TaskRejected(t) ==
  /\ task[t].pc = "backend"
  /\ ~task[t].aborted
  /\ Disturb
  /\ task' = TaskExit(task, t)
  /\ sessions' = FinallyDetach(sessions, task[t].sid)
  /\ UNCHANGED <<msgs, dbStatus, dbAge, ppq, life, shut, req, settings, auth>>
  /\ sse' = broadcastProcessingStatus(sse, sessions', msgs')

\* The session's cancellation handle is signalled; the tasks started with it
\* see it from now on.
Cancel(s) ==
  /\ sessions[s].tracked
  /\ ~sessions[s].aborted
  /\ sessions' = [sessions EXCEPT ![s].aborted = TRUE]
  /\ task' = [t \in TaskIds |->
                IF task[t].sid = s THEN [task[t] EXCEPT !.aborted = TRUE] ELSE task[t]]
  /\ UNCHANGED <<msgs, dbStatus, dbAge, ppq, life>>
  /\ Disturb
  /\ UNCHANGED <<shut, req, settings, auth, sse>>

\* processPendingQueues(sessionLimit) up to its first pause or its end: the
\* stale-session cleanup, the scan of the sessions with pending messages, and
\* the start loop. The cleanup's try block may throw: at its query ("query",
\* nothing is changed) or at the update of the pending messages ("messages",
\* the sessions are already marked failed); the catch logs and the call goes
\* on. initializeSession throws for the sessions in failing.
CleanupFaults == {"none", "query", "messages"}
processPendingQueuesAbortsOnFault(p, sessionLimit, fault, failing) ==
  LET stale == IF fault = "query" THEN {} ELSE StaleSessionIds(dbStatus, dbAge)
      ds == [s \in Sessions |-> IF s \in stale THEN "failed" ELSE dbStatus[s]]
      m == IF fault = "messages" THEN msgs ELSE FailPendingOf(msgs, stale)
      orphanedSessionIds == getSessionsWithPendingMessages(m)
      asked == {s \in Sessions : PendingOf(msgs, s) # {}}
      r == [NoPass EXCEPT !.limit = sessionLimit,
                          !.orphanedSessionIds = orphanedSessionIds,
                          !.total = Len(orphanedSessionIds),
                          !.nCall = Cardinality(asked),
                          !.nFresh = Cardinality(asked \ stale),
                          !.liveAtCall = \E s \in asked : LiveTasks(task, s) # {},
                          !.fault = fault,
                          !.failing = failing]
      out == IF fault = "none"
             THEN RunLoop(r, Bundle(sessions, task, ds, dbAge))
             ELSE [r |-> [r EXCEPT !.pc = "aborted"],
                   b |-> Bundle(sessions, task, ds, dbAge)]
  IN /\ msgs' = m
     /\ ppq' = [ppq EXCEPT ![p] = out.r]
     /\ InstallBundle(out.b)
processPendingQueuesWith(p, sessionLimit, fault, failing) ==
  LET stale == IF fault = "query" THEN {} ELSE StaleSessionIds(dbStatus, dbAge)
      ds == [s \in Sessions |-> IF s \in stale THEN "failed" ELSE dbStatus[s]]
      m == IF fault = "messages" THEN msgs ELSE FailPendingOf(msgs, stale)
      orphanedSessionIds == getSessionsWithPendingMessages(m)
      asked == {s \in Sessions : PendingOf(msgs, s) # {}}
      r == [NoPass EXCEPT !.limit = sessionLimit,
                          !.orphanedSessionIds = orphanedSessionIds,
                          !.total = Len(orphanedSessionIds),
                          !.nCall = Cardinality(asked),
                          !.nFresh = Cardinality(asked \ stale),
                          !.liveAtCall = \E s \in asked : LiveTasks(task, s) # {},
                          !.fault = fault,
                          !.failing = failing]
      out == RunLoop(r, Bundle(sessions, task, ds, dbAge))
  IN /\ msgs' = m
     /\ ppq' = [ppq EXCEPT ![p] = out.r]
     /\ InstallBundle(out.b)

processPendingQueues(p, sessionLimit) ==
  processPendingQueuesWith(p, sessionLimit, "none", {})

\* A processPendingQueues(sessionLimit) call from outside initializeBackground.
ManualPPQ(L) ==
  /\ coreReady
  /\ Listening
  /\ StoreOpen
  /\ ppq["manual"].pc = "idle"
  /\ FreeTasks(task) # {}
  /\ processPendingQueues("manual", L)
  /\ Disturb
  /\ UNCHANGED life
  /\ UNCHANGED <<shut, req, settings, auth, sse>>

\* sessionLimit: number, as a caller may pass it: negative, zero or positive
SessionLimits == (0 - 1)..MaxLimit

\* A processPendingQueues(sessionLimit) call during which the stale-session
\* cleanup throws, or initializeSession throws for some sessions.
ManualPPQFaulty(L, fault, failing) ==
  /\ coreReady
  /\ Listening
  /\ StoreOpen
  /\ ppq["manual"].pc = "idle"
  /\ FreeTasks(task) # {}
  /\ fault # "none" \/ failing # {}
  /\ processPendingQueuesWith("manual", L, fault, failing)
  /\ Disturb
  /\ UNCHANGED life
  /\ UNCHANGED <<shut, req, settings, auth, sse>>

\* The loop goes on after its 100 ms pause.
PPQResume(p) ==
  /\ ppq[p].pc = "sleep"
  /\ StoreOpen
  /\ FreeTasks(task) # {}
  /\ LET out == RunLoop(ppq[p], CurrentBundle)
     IN /\ ppq' = [ppq EXCEPT ![p] = out.r]
        /\ InstallBundle(out.b)
  /\ UNCHANGED <<msgs, life, events>>
  /\ UNCHANGED <<shut, req, settings, auth, sse>>

\* The caller takes the result of a finished call.
PPQReturn(p) ==
  /\ ppq[p].pc = "done"
  /\ ppq' = [ppq EXCEPT ![p] = NoPass]
  /\ UNCHANGED <<msgs, dbStatus, dbAge, sessions, task, life, events>>
  /\ UNCHANGED <<shut, req, settings, auth, sse>>

\* start(): the HTTP server listens; initializeBackground is launched.
ServerListen ==
  /\ life.pc = "new"
  /\ life' = [life EXCEPT !.pc = "listening"]
  /\ UNCHANGED <<msgs, dbStatus, dbAge, sessions, task, ppq, events>>
  /\ shut' = [shut EXCEPT !.listening = TRUE]
  /\ UNCHANGED <<req, settings, auth, sse>>

\* pendingStore.resetStuckMessages(STUCK_THRESHOLD_MS) of initializeBackground
StartupResetWrongThreshold(m) == resetStuckMessages(m, STALE_SESSION_THRESHOLD_MS)
StartupReset(m) == resetStuckMessages(m, STUCK_THRESHOLD_MS)

\* start(): initializeBackground is launched once the awaited server.listen
\* has returned.
ListenNotAwaited == life.pc \in {"new", "listening"}
ListenAwaitedOrReady == life.pc \in {"listening", "ready"}
ListenAwaited == life.pc = "listening"

\* initializeBackground up to coreReady: the database opens and the stuck
\* messages of earlier events are reset.
InitCore ==
  /\ ListenAwaited
  /\ msgs' = StartupReset(msgs)
  /\ life' = [life EXCEPT !.pc = "coreReady"]
  /\ UNCHANGED <<dbStatus, dbAge, sessions, task, ppq, events>>
  /\ shut' = [shut EXCEPT !.storeOpen = TRUE]
  /\ UNCHANGED <<req, settings, auth, sse>>

\* initializeBackground after the MCP connection: the first recovery pass is
\* launched and the periodic cleanup timer is set.
InitComplete ==
  /\ life.pc = "coreReady"
  /\ FreeTasks(task) # {}
  /\ life' = [life EXCEPT !.pc = "ready", !.interval = TRUE]
  /\ IF StoreOpen
     THEN processPendingQueues("startup", StartupSessionLimit)
     ELSE UNCHANGED <<msgs, dbStatus, dbAge, sessions, task, ppq>>
  /\ UNCHANGED events
  /\ UNCHANGED <<shut, req, settings, auth, sse>>

\* The MCP connection fails or times out: initializeBackground throws.
InitMcpFail ==
  /\ life.pc = "coreReady"
  /\ life' = [life EXCEPT !.pc = "mcpFailed"]
  /\ UNCHANGED <<msgs, dbStatus, dbAge, sessions, task, ppq, events>>
  /\ UNCHANGED <<shut, req, settings, auth, sse>>

\* cleanupStaleSessions: tracked sessions idle for longer than the threshold
\* with no live processor are failed and removed, their pending items failed.
cleanupStaleSessionIds(se, thresholdMs) ==
  {s \in Sessions : se[s].tracked /\ se[s].idle > thresholdMs /\ se[s].gen = 0}

\* The setInterval callback of initializeBackground.
PeriodicCleanup ==
  /\ life.interval
  /\ StoreOpen
  /\ life.due
  /\ life' = [life EXCEPT !.due = FALSE]
  /\ LET gone == cleanupStaleSessionIds(sessions, STALE_SESSION_THRESHOLD_MS)
     IN /\ sessions' = [s \in Sessions |-> IF s \in gone THEN NoSession ELSE sessions[s]]
        /\ dbStatus' = [s \in Sessions |-> IF s \in gone THEN "failed" ELSE dbStatus[s]]
        /\ msgs' = FailPendingOf(msgs, gone)
        /\ sse' = IF gone # {}
                  THEN broadcastProcessingStatus(sse, sessions', msgs') ELSE sse
  /\ UNCHANGED <<dbAge, task, ppq, events>>
  /\ UNCHANGED <<shut, req, settings, auth>>

Older(a, cap) == Min(a + TickMs, cap)

\* Time passes: the ages grow by TickMs, and the cleanup timer (period 5 min)
\* comes due.
Tick ==
  /\ msgs' = [i \in ItemIds(msgs) |->
                IF msgs[i].status = "processing"
                THEN [msgs[i] EXCEPT !.age = Older(@, ItemAgeCap)] ELSE msgs[i]]
  /\ dbAge' = [s \in Sessions |->
                 IF dbStatus[s] = "none" THEN 0 ELSE Older(dbAge[s], SessionAgeCap)]
  /\ sessions' = [s \in Sessions |->
                    IF sessions[s].tracked
                    THEN [sessions[s] EXCEPT !.idle = Older(@, SessionAgeCap)]
                    ELSE sessions[s]]
  /\ life' = [life EXCEPT !.due = life.interval]
  /\ UNCHANGED <<dbStatus, task, ppq>>
  /\ Disturb
  /\ UNCHANGED <<shut, req, settings, auth, sse>>

\* The process dies and a new one is constructed: only the durable store is
\* carried over.
Crash ==
  /\ life.pc # "new"
  /\ Disturb
  /\ sessions' = [s \in Sessions |-> NoSession]
  /\ task' = [t \in TaskIds |-> NoTask]
  /\ ppq' = [p \in Passes |-> NoPass]
  /\ life' = [pc |-> "new", interval |-> FALSE, due |-> FALSE]
  /\ UNCHANGED <<msgs, dbStatus, dbAge>>
  /\ shut' = NoShutdown
  /\ req' = NoRequests
  /\ UNCHANGED <<settings, auth>>
  /\ sse' = NoViewers

\* ------------------------------------------------------------------ shutdown
\* shutdown(): if (this.cleanupInterval) { clearInterval(...); ... = null }
ClearIntervalAlways(l, sh) ==
  [life |-> [l EXCEPT !.interval = FALSE, !.due = FALSE],
   shut |-> [sh EXCEPT !.timerStops = @ + 1]]
ClearIntervalSkipped(l, sh) == [life |-> l, shut |-> sh]
ClearInterval(l, sh) ==
  IF l.interval
  THEN [life |-> [l EXCEPT !.interval = FALSE, !.due = FALSE],
        shut |-> [sh EXCEPT !.timerStops = @ + 1]]
  ELSE [life |-> l, shut |-> sh]

FreeCalls(sh) == {c \in Calls : sh.call[c].pc = "idle"}

\* A shutdown trigger (onShutdown, onRestart, SIGTERM, SIGINT) calls
\* shutdown(): the cleanup timer is stopped and performGracefulShutdown begins.
ShutdownCall(c) ==
  /\ ProcessRunning
  /\ c \in FreeCalls(shut)
  /\ \A d \in FreeCalls(shut) : c <= d
  /\ Disturb
  /\ LET out == ClearInterval(life, shut)
     IN /\ life' = out.life
        /\ shut' = [out.shut EXCEPT !.call[c].pc = "cancel"]
  /\ UNCHANGED <<msgs, dbStatus, dbAge, sessions, task, ppq, req, settings, auth, sse>>

\* performGracefulShutdown: cancellation is signalled on every session's handle.
SignalNoSession(se) == se
SignalEverySession(se) ==
  [s \in Sessions |-> IF se[s].tracked THEN [se[s] EXCEPT !.aborted = TRUE] ELSE se[s]]

ShutdownCancel(c) ==
  /\ ProcessRunning
  /\ shut.call[c].pc = "cancel"
  /\ sessions' = SignalEverySession(sessions)
  /\ task' = [t \in TaskIds |->
                IF task[t].sid # 0 /\ sessions'[task[t].sid].aborted
                THEN [task[t] EXCEPT !.aborted = TRUE] ELSE task[t]]
  /\ shut' = [shut EXCEPT !.call[c].pc = "drain"]
  /\ UNCHANGED <<msgs, dbStatus, dbAge, ppq, life, events, req, settings, auth, sse>>

AnyLiveTask(tk) == \E t \in TaskIds : tk[t].sid # 0

\* The drain wait ends when every processor has detached, or else at the
\* drain timeout.
DrainNeverTimesOut(tk) == ~AnyLiveTask(tk)
DrainMayEnd(tk) == TRUE

closeStoreAgain(sh) == [sh EXCEPT !.storeOpen = FALSE, !.storeCloses = @ + 1]
closeStore(sh) ==
  IF sh.storeOpen THEN [sh EXCEPT !.storeOpen = FALSE, !.storeCloses = @ + 1] ELSE sh

closeListenerAgain(sh) == [sh EXCEPT !.listening = FALSE, !.listenerCloses = @ + 1]
closeListener(sh) ==
  IF sh.listening THEN [sh EXCEPT !.listening = FALSE, !.listenerCloses = @ + 1] ELSE sh

\* performGracefulShutdown: the drain wait is over; the store is closed.
ShutdownDrained(c) ==
  /\ ProcessRunning
  /\ shut.call[c].pc = "drain"
  /\ DrainMayEnd(task)
  /\ shut' = [closeStore(shut) EXCEPT !.call[c].pc = "listener",
                                      !.call[c].timedOut = AnyLiveTask(task)]
  /\ UNCHANGED <<msgs, dbStatus, dbAge, sessions, task, ppq, life, events, req, settings, auth, sse>>

\* performGracefulShutdown: the listener is closed; the call returns.
ShutdownCloseListener(c) ==
  /\ ProcessRunning
  /\ shut.call[c].pc = "listener"
  /\ shut' = [closeListener(shut) EXCEPT !.call[c].pc = "done"]
  /\ UNCHANGED <<msgs, dbStatus, dbAge, sessions, task, ppq, life, events, req, settings, auth, sse>>

\* The process exits: what is in memory is gone.
Exited(why) ==
  /\ sessions' = [s \in Sessions |-> NoSession]
  /\ task' = [t \in TaskIds |-> NoTask]
  /\ ppq' = [p \in Passes |-> NoPass]
  /\ life' = [pc |-> "stopped", interval |-> FALSE, due |-> FALSE]
  /\ shut' = [shut EXCEPT !.exit = why, !.listening = FALSE, !.restartPending = FALSE]
  /\ req' = NoRequests
  /\ UNCHANGED <<settings, auth>>
  /\ sse' = NoViewers
  /\ UNCHANGED <<msgs, dbStatus, dbAge, events>>

\* The transport that called shutdown() exits the process once it has returned.
ProcessExit ==
  /\ ProcessRunning
  /\ \E c \in Calls : shut.call[c].pc = "done"
  /\ Exited("shutdown")

\* ViewerRoutes.handleRestart: the response is sent and the exit is scheduled.
handleRestart ==
  /\ ProcessRunning
  /\ Listening
  /\ ~shut.restartPending
  /\ Disturb
  /\ shut' = [shut EXCEPT !.restartPending = TRUE]
  /\ UNCHANGED <<msgs, dbStatus, dbAge, sessions, task, ppq, life, req, settings, auth, sse>>

\* setTimeout(() => process.exit(0), 500) of handleRestart
RestartExit ==
  /\ ProcessRunning
  /\ shut.restartPending
  /\ Exited("restart")

\* A processor that meets the closed store: the store call throws, the
\* promise rejects and the .finally of startSessionProcessor runs.
TaskStoreFailure(t) ==
  /\ task[t].sid # 0
  /\ ~StoreOpen
  /\ task[t].pc = "claim" \/ ~task[t].aborted
  /\ task' = TaskExit(task, t)
  /\ sessions' = FinallyDetach(sessions, task[t].sid)
  /\ UNCHANGED <<msgs, dbStatus, dbAge, ppq, life, events, shut, req, settings, auth>>
  /\ sse' = broadcastProcessingStatus(sse, sessions', msgs')

\* ------------------------------------------------- /api/context/inject
\* A request reaches the early handler, which awaits
\* Promise.race([initializationComplete, timeoutPromise]).
RequestArrive(r) ==
  /\ ProcessRunning
  /\ Listening
  /\ req[r] = "none"
  /\ Disturb
  /\ req' = [req EXCEPT ![r] = "waiting"]
  /\ UNCHANGED <<msgs, dbStatus, dbAge, sessions, task, ppq, life, shut, sse, settings, auth>>

\* this.searchRoutes is set before coreReady and resolveInitialization()
searchRoutes == coreReady
initializationComplete == life.pc = "ready"

\* initializationComplete resolved: 503 without searchRoutes, else next().
RequestResume(r) ==
  /\ req[r] = "waiting"
  /\ initializationComplete
  /\ req' = [req EXCEPT ![r] = IF searchRoutes THEN "served" ELSE "unavailable"]
  /\ UNCHANGED <<msgs, dbStatus, dbAge, sessions, task, ppq, life, events, shut, sse, settings, auth>>

\* The 5-minute timeoutPromise rejects first: the await throws inside the
\* async handler and no response is written.
RequestTimeout(r) ==
  /\ req[r] = "waiting"
  /\ ~initializationComplete
  /\ req' = [req EXCEPT ![r] = "threw"]
  /\ UNCHANGED <<msgs, dbStatus, dbAge, sessions, task, ppq, life, events, shut, sse, settings, auth>>

\* ------------------------------------------------------------------ viewer
\* ViewerRoutes.handleSSEStream: the client is added to the broadcaster, then
\* initial_load and the processing status computed now are broadcast.
handleSSEStreamLateAdd(cl, o, st) == addClient(broadcast(cl, st), o)
handleSSEStreamClients(cl, o, st) == broadcast(addClient(cl, o), st)

handleSSEStream(o) ==
  /\ ProcessRunning
  /\ Listening
  /\ ~sse.clients[o].connected
  /\ sse' = [sse EXCEPT !.clients =
               handleSSEStreamClients(@, o,
                 [isProcessing |-> isAnySessionProcessing(sessions),
                  queueDepth |-> getTotalActiveWork(msgs)])]
  /\ UNCHANGED <<msgs, dbStatus, dbAge, sessions, task, ppq, life, events, shut, req, settings, auth>>

\* The observer's connection closes: the broadcaster drops the client.
ClientClose(o) ==
  /\ sse.clients[o].connected
  /\ Disturb
  /\ sse' = [sse EXCEPT !.clients[o].connected = FALSE, !.clients[o].broken = FALSE]
  /\ UNCHANGED <<msgs, dbStatus, dbAge, sessions, task, ppq, life, shut, req, settings, auth>>

\* An observer's connection breaks; the broadcaster has not noticed yet.
ClientBreak(o) ==
  /\ sse.clients[o].connected
  /\ ~sse.clients[o].broken
  /\ Disturb
  /\ sse' = [sse EXCEPT !.clients[o].broken = TRUE]
  /\ UNCHANGED <<msgs, dbStatus, dbAge, sessions, task, ppq, life, shut, req, settings, auth>>

\* ViewerRoutes.handleHealth: the status query.
handleHealth ==
  /\ ProcessRunning
  /\ Listening
  /\ Disturb
  /\ sse' = [sse EXCEPT !.health =
               [n |-> 1 - @.n,
                status |-> [isProcessing |-> isAnySessionProcessing(sessions),
                            queueDepth |-> getTotalActiveWork(msgs)]]]
  /\ UNCHANGED <<msgs, dbStatus, dbAge, sessions, task, ppq, life, shut, req, settings, auth>>

\* ---------------------------------------------------------------- settings
Providers == {"gemini", "openrouter", "mistral"}

\* The operator edits the settings: what is...Selected() and is...Available()
\* answer changes. getActiveAgent reads them on each call.
SettingsChange ==
  /\ Disturb
  /\ \E sel \in SUBSET Providers, av \in SUBSET Providers :
       /\ [selected |-> sel, available |-> av] # settings
       /\ settings' = [selected |-> sel, available |-> av]
  /\ UNCHANGED <<msgs, dbStatus, dbAge, sessions, task, ppq, life, shut, req, sse, auth>>

\* ------------------------------------------------------------ authMiddleware
\* isLocalRequest: req.ip || req.socket.remoteAddress || ''
isLocalRequest(clientIp) ==
  \/ clientIp = "127.0.0.1"
  \/ clientIp = "::1"
  \/ clientIp = "::ffff:127.0.0.1"
  \/ clientIp = "localhost"

BearerPrefix == <<"B", "e", "a", "r", "e", "r", " ">>
\* String.prototype.startsWith and slice
startsWith(str, prefix) ==
  Len(str) >= Len(prefix) /\ SubSeq(str, 1, Len(prefix)) = prefix
slice(str, n) == SubSeq(str, n + 1, Len(str))
\* !authHeader: undefined or the empty string
Falsy(h) == ~h.present \/ h.value = <<>>

\* authMiddleware: what the request gets and the auth record attached to it
authOutcomeAnyConfigured(clientIp, authHeader, configuredToken) ==
  IF isLocalRequest(clientIp) THEN [outcome |-> "next", isLocal |-> TRUE]
  ELSE IF Falsy(authHeader) \/ ~startsWith(authHeader.value, BearerPrefix)
  THEN [outcome |-> "401", isLocal |-> FALSE]
  ELSE IF slice(authHeader.value, 7) # configuredToken
  THEN [outcome |-> "401", isLocal |-> FALSE]
  ELSE [outcome |-> "next", isLocal |-> FALSE]
authOutcome(clientIp, authHeader, configuredToken) ==
  IF isLocalRequest(clientIp) THEN [outcome |-> "next", isLocal |-> TRUE]
  ELSE IF Falsy(authHeader) \/ ~startsWith(authHeader.value, BearerPrefix)
  THEN [outcome |-> "401", isLocal |-> FALSE]
  ELSE IF configuredToken = <<>>
  THEN [outcome |-> "401", isLocal |-> FALSE]
  ELSE IF slice(authHeader.value, 7) # configuredToken
  THEN [outcome |-> "401", isLocal |-> FALSE]
  ELSE [outcome |-> "next", isLocal |-> FALSE]

authMiddleware ==
  /\ auth.outcome = "none"
  /\ LET out == authOutcome(auth.ip, auth.header, auth.configuredToken)
     IN auth' = [auth EXCEPT !.outcome = out.outcome, !.isLocal = out.isLocal]
  /\ UNCHANGED <<msgs, dbStatus, dbAge, sessions, task, ppq, life, events, shut, req,
                 sse, settings>>

\* The requests tried: addresses, Authorization headers and configured tokens.
ClientIps == {"127.0.0.1", "::1", "::ffff:127.0.0.1", "127.0.0.2", "10.0.0.5",
              "::ffff:10.0.0.5", ""}
Tokens == {<<>>, <<"a">>, <<"b">>, <<"a", "b">>}
AuthHeaders ==
  {NoHeader}
  \cup {[present |-> TRUE, value |-> BearerPrefix \o tk] : tk \in Tokens}
  \cup {[present |-> TRUE, value |-> v] :
          v \in {<<>>, <<"a">>, <<"B", "e", "a", "r", "e", "r", "a">>,
                 <<"b", "e", "a", "r", "e", "r", " ", "a">>,
                 <<"B", "a", "s", "i", "c", " ", "a">>,
                 <<" ">> \o BearerPrefix \o <<"a">>}}

Next ==
  \/ \E s \in Sessions : Submit(s)
  \/ \E t \in TaskIds : TaskClaim(t)
  \/ \E t \in TaskIds : TaskBackendOk(t)
  \/ \E t \in TaskIds : TaskBackendFail(t)
  \/ \E t \in TaskIds : TaskCancelled(t)
  \/ \E s \in Sessions : Cancel(s)
  \/ \E L \in 0..MaxLimit : ManualPPQ(L)
  \/ \E p \in Passes : PPQResume(p)
  \/ \E p \in Passes : PPQReturn(p)
  \/ ServerListen
  \/ InitCore
  \/ InitComplete
  \/ InitMcpFail
  \/ PeriodicCleanup
  \/ Tick
  \/ Crash

Spec == Init /\ [][Next]_vars

\* The worker with a backend that succeeds on every call, never cancelled and
\* never killed. Every session with a pending item then has its processor, so
\* a pass starts none and never pauses.
DrainNext ==
  \/ \E s \in Sessions : Submit(s)
  \/ \E t \in TaskIds : TaskClaim(t)
  \/ \E t \in TaskIds : TaskBackendOk(t)
  \/ \E L \in 0..MaxLimit : ManualPPQ(L)
  \/ \E p \in Passes : PPQReturn(p)
  \/ ServerListen
  \/ InitCore
  \/ InitComplete
  \/ PeriodicCleanup
  \/ Tick

DrainSpec == Init /\ [][DrainNext]_vars

\* The worker through start, shutdown, restart and exit, with requests
\* arriving at the early handler meanwhile. The backend succeeds on every
\* call; the periodic timer is installed and cleared but never comes due.
LifeNext ==
  \/ \E s \in Sessions : Submit(s)
  \/ \E t \in TaskIds : TaskClaim(t)
  \/ \E t \in TaskIds : TaskBackendOk(t)
  \/ \E t \in TaskIds : TaskCancelled(t)
  \/ \E t \in TaskIds : TaskStoreFailure(t)
  \/ \E p \in Passes : PPQResume(p)
  \/ \E p \in Passes : PPQReturn(p)
  \/ ServerListen
  \/ InitCore
  \/ InitComplete
  \/ InitMcpFail
  \/ \E c \in Calls : ShutdownCall(c)
  \/ \E c \in Calls : ShutdownCancel(c)
  \/ \E c \in Calls : ShutdownDrained(c)
  \/ \E c \in Calls : ShutdownCloseListener(c)
  \/ ProcessExit
  \/ handleRestart
  \/ RestartExit
  \/ \E r \in Requests : RequestArrive(r)
  \/ \E r \in Requests : RequestResume(r)
  \/ \E r \in Requests : RequestTimeout(r)
  \/ Crash

LifeSpec == Init /\ [][LifeNext]_vars

\* The worker of one process run with observers on the status stream and
\* status queries.
StatusNext ==
  \/ \E s \in Sessions : Submit(s)
  \/ \E t \in TaskIds : TaskClaim(t)
  \/ \E t \in TaskIds : TaskBackendOk(t)
  \/ \E t \in TaskIds : TaskCancelled(t)
  \/ \E t \in TaskIds : TaskRejected(t)
  \/ \E s \in Sessions : Cancel(s)
  \/ \E p \in Passes : PPQReturn(p)
  \/ ServerListen
  \/ InitCore
  \/ InitComplete
  \/ \E o \in Observers : handleSSEStream(o)
  \/ \E o \in Observers : ClientClose(o)
  \/ \E o \in Observers : ClientBreak(o)
  \/ handleHealth

StatusSpec == Init /\ [][StatusNext]_vars

\* The worker of one process run, its backend always succeeding, with the
\* provider settings edited between starts.
AgentNext ==
  \/ \E s \in Sessions : Submit(s)
  \/ \E t \in TaskIds : TaskClaim(t)
  \/ \E t \in TaskIds : TaskBackendOk(t)
  \/ \E p \in Passes : PPQReturn(p)
  \/ ServerListen
  \/ InitCore
  \/ InitComplete
  \/ SettingsChange

AgentSpec == Init /\ [][AgentNext]_vars

\* One request at the authentication middleware, for each address, header and
\* configured token tried.
AuthInit ==
  /\ msgs = <<>>
  /\ dbStatus = [s \in Sessions |-> "none"]
  /\ dbAge = [s \in Sessions |-> 0]
  /\ sessions = [s \in Sessions |-> NoSession]
  /\ task = [t \in TaskIds |-> NoTask]
  /\ ppq = [p \in Passes |-> NoPass]
  /\ life = [pc |-> "new", interval |-> FALSE, due |-> FALSE]
  /\ events = 0
  /\ shut = NoShutdown
  /\ req = NoRequests
  /\ sse = NoViewers
  /\ settings = DefaultSettings
  /\ \E ip \in ClientIps, h \in AuthHeaders, tk \in Tokens :
       auth = [NoAuth EXCEPT !.ip = ip, !.header = h, !.configuredToken = tk]

AuthNext == authMiddleware

AuthSpec == AuthInit /\ [][AuthNext]_vars

\* A worker constructed over the store an earlier process left behind when
\* it died: sessions created a while ago, still active, their items pending
\* or claimed (just before the death, or one clock step before it).
OldItems(s) ==
  {NewItem(s),
   [NewItem(s) EXCEPT !.status = "processing", !.claimed = TRUE],
   [NewItem(s) EXCEPT !.status = "processing", !.claimed = TRUE, !.age = TickMs]}
OldStores ==
  {m \in {<<>>} \cup {<<a>> : a \in UNION {OldItems(s) : s \in Sessions}}
            \cup {<<a, b>> : a, b \in UNION {OldItems(s) : s \in Sessions}} :
     \A i, j \in ItemIds(m) :
       (i < j /\ m[i].sid = m[j].sid /\ m[j].claimed) => m[i].claimed}
OldAges == {TickMs, SessionAgeCap}

RecoveryInit ==
  /\ msgs \in OldStores
  /\ dbStatus = [s \in Sessions |->
                   IF \E i \in ItemIds(msgs) : msgs[i].sid = s THEN "active" ELSE "none"]
  /\ \E a \in OldAges :
       dbAge = [s \in Sessions |-> IF dbStatus[s] = "none" THEN 0 ELSE a]
  /\ sessions = [s \in Sessions |-> NoSession]
  /\ task = [t \in TaskIds |-> NoTask]
  /\ ppq = [p \in Passes |-> NoPass]
  /\ life = [pc |-> "new", interval |-> FALSE, due |-> FALSE]
  /\ events = 0
  /\ shut = NoShutdown
  /\ req = NoRequests
  /\ sse = NoViewers
  /\ settings = DefaultSettings
  /\ auth = NoAuth

\* Recovery after a process death: startup reset and startup pass, the
\* clock, and further deaths. The backend succeeds on every call.
RecoveryNext ==
  \/ \E s \in Sessions : Submit(s)
  \/ \E t \in TaskIds : TaskClaim(t)
  \/ \E t \in TaskIds : TaskBackendOk(t)
  \/ \E p \in Passes : PPQResume(p)
  \/ \E p \in Passes : PPQReturn(p)
  \/ ServerListen
  \/ InitCore
  \/ InitComplete
  \/ Tick
  \/ Crash

RecoverySpec == RecoveryInit /\ [][RecoveryNext]_vars

\* Recovery passes during which store statements fail, in a worker
\* constructed over the store a dead process left. The backend succeeds on
\* every call.
FaultNext ==
  \/ \E s \in Sessions : Submit(s)
  \/ \E t \in TaskIds : TaskClaim(t)
  \/ \E t \in TaskIds : TaskBackendOk(t)
  \/ \E L \in SessionLimits, f \in CleanupFaults, fs \in SUBSET Sessions :
       ManualPPQFaulty(L, f, fs)
  \/ \E p \in Passes : PPQResume(p)
  \/ \E p \in Passes : PPQReturn(p)
  \/ ServerListen
  \/ InitCore
  \/ InitComplete

FaultSpec == RecoveryInit /\ [][FaultNext]_vars

\* Observers on the status stream of a worker constructed over the store a
\* dead process left, through its startup reset and startup pass. The
\* backend succeeds on every call.
QuietNext ==
  \/ \E s \in Sessions : Submit(s)
  \/ \E t \in TaskIds : TaskClaim(t)
  \/ \E t \in TaskIds : TaskBackendOk(t)
  \/ \E p \in Passes : PPQResume(p)
  \/ \E p \in Passes : PPQReturn(p)
  \/ ServerListen
  \/ InitCore
  \/ InitComplete
  \/ \E o \in Observers : handleSSEStream(o)

QuietSpec == RecoveryInit /\ [][QuietNext]_vars

\* A worker constructed over the store a dead process left, its backend
\* rejecting every call, with no further submission. Every step that can be
\* taken is taken in the end: the event loop runs each callback that is ready.
FailNext ==
  \/ \E t \in TaskIds : TaskClaim(t)
  \/ \E t \in TaskIds : TaskBackendFailing(t)
  \/ \E p \in Passes : PPQResume(p)
  \/ \E p \in Passes : PPQReturn(p)
  \/ ServerListen
  \/ InitCore
  \/ InitComplete

FailSpec ==
  /\ RecoveryInit
  /\ [][FailNext]_vars
  /\ \A t \in TaskIds : WF_vars(TaskClaim(t)) /\ WF_vars(TaskBackendFailing(t))

\* ------------------------------------------------------------------ claims
ItemsOf(s) == {i \in ItemIds(msgs) : msgs[i].sid = s}

\* Steps of the model, recognised by what they change.
SubmitStep == Len(msgs') = Len(msgs) + 1
PassStep == \E p \in Passes : ppq'[p] # ppq[p] /\ ppq'[p].pc # "idle"
BeginStep(p) == ppq[p].pc = "idle" /\ ppq'[p].pc # "idle"
StartupResetStep == life.pc = "listening" /\ life'.pc = "coreReady"
Started(t) == task[t].sid = 0 /\ task'[t].sid # 0
PeriodicStep == life.due /\ ~life'.due /\ life'.interval

\* An item in processing that no live processor task is working on.
Orphaned(i) == msgs[i].status = "processing" /\ \A t \in TaskIds : task[t].item # i
StuckOrphan(i) == Orphaned(i) /\ IsStuck(msgs[i], STUCK_THRESHOLD_MS)

\* C1: in every reachable state each session has at most one live processor
\* task, whatever the interleaving of submissions, recovery passes, restarts
\* after cancellation and processor completions.
C1_SingleProcessor ==
  \A s \in Sessions : Cardinality(LiveTasks(task, s)) <= 1

\* A second submission has reached a session whose processor is live.
C1_Witness ==
  \E s \in Sessions :
    /\ events = 0
    /\ Cardinality(LiveTasks(task, s)) = 1
    /\ Cardinality(ItemsOf(s)) >= 2

\* C3: no item's retry count exceeds 3; an item whose count has reached 3 is
\* failed, and it stays failed (claimNext never hands it out again).
C3_RetryBound ==
  /\ [](\A i \in ItemIds(msgs) :
          /\ msgs[i].retry <= 3
          /\ msgs[i].retry = 3 => msgs[i].status = "failed")
  /\ [][\A i \in ItemIds(msgs) :
          msgs[i].retry >= 3 => msgs'[i].status = "failed" /\ msgs'[i].retry = msgs[i].retry]_vars

C3_Witness ==
  \E i \in ItemIds(msgs) : msgs[i].retry = 3 /\ msgs[i].status = "failed"

\* C5: a claim takes the oldest pending item of its session and only that item;
\* of two items of a session the later one is never claimed while the earlier
\* one still waits for its first claim.
C5_FifoPerSession ==
  /\ [][\A i \in ItemIds(msgs) :
          (msgs[i].status = "pending" /\ msgs'[i].status = "processing") =>
             /\ \A j \in ItemIds(msgs) :
                  (j < i /\ msgs[j].sid = msgs[i].sid) => msgs[j].status # "pending"
             /\ \A k \in ItemIds(msgs) :
                  (k # i /\ msgs[k].status # "processing") => msgs'[k].status # "processing"]_vars
  /\ [](\A i, j \in ItemIds(msgs) :
          (i < j /\ msgs[i].sid = msgs[j].sid /\ msgs[j].claimed /\ ~msgs[i].claimed)
             => msgs[i].status = "failed")

\* Two items of one session have both been claimed.
C5_Witness ==
  \E i, j \in ItemIds(msgs) :
    i < j /\ msgs[i].sid = msgs[j].sid /\ msgs[i].claimed /\ msgs[j].claimed

\* C6: a start request (a submission or a recovery pass) that meets a session
\* with a live processor changes neither the session's processor handle nor its
\* cancellation handle, and starts no task for it.
C6_StartIsNoOpWhenLive ==
  [][\A s \in Sessions :
       (sessions[s].tracked /\ sessions[s].gen # 0 /\ (SubmitStep \/ PassStep)) =>
          /\ sessions'[s].gen = sessions[s].gen
          /\ sessions'[s].ctrl = sessions[s].ctrl
          /\ sessions'[s].aborted = sessions[s].aborted
          /\ LiveTasks(task', s) = LiveTasks(task, s)
          /\ \A t \in LiveTasks(task, s) : task'[t] = task[t]]_vars

\* A recovery pass has skipped a session whose processor is still live.
C6_Witness ==
  \E p \in Passes :
    /\ ppq[p].skipped > 0
    /\ \E k \in 1..Len(ppq[p].orphanedSessionIds) :
         /\ sessions[ppq[p].orphanedSessionIds[k]].gen # 0
         /\ \A n \in 1..Len(ppq[p].ids) : ppq[p].ids[n] # ppq[p].orphanedSessionIds[k]

\* C7: no processor is started with a signalled cancellation handle; a start
\* on a session whose handle was signalled installs a fresh one first.
C7_FreshHandleOnStart ==
  [][\A t \in TaskIds :
       Started(t) =>
         /\ ~task'[t].aborted
         /\ ~sessions'[task'[t].sid].aborted
         /\ sessions[task'[t].sid].aborted =>
              sessions'[task'[t].sid].ctrl = sessions[task'[t].sid].ctrl + 1]_vars

\* A processor runs on a replaced controller, unsignalled.
C7_Witness ==
  \E t \in TaskIds :
    /\ task[t].sid # 0
    /\ sessions[task[t].sid].ctrl > 0
    /\ ~task[t].aborted

\* C2: resetStuckMessages runs at startup and on every periodic pass: each of
\* them returns to pending every item that has been in processing beyond the
\* threshold with no live processor working on it.
C2_ResetAtStartupAndPeriodically ==
  [][(StartupResetStep \/ PeriodicStep) =>
        \A i \in ItemIds(msgs) : StuckOrphan(i) => msgs'[i].status = "pending"]_vars

\* C4: the startup resetStuckMessages sets to pending exactly the items in
\* processing for longer than the threshold, keeps their retry count, leaves
\* every other item as it is, and a reset item is again within reach of
\* claimNext.
C4_ResetExactlyStuck ==
  [][StartupResetStep =>
       \A i \in ItemIds(msgs) :
         IF msgs[i].status = "processing" /\ msgs[i].age > 5 * 60 * 1000
         THEN /\ msgs'[i].status = "pending"
              /\ msgs'[i].retry = msgs[i].retry
              /\ msgs'[i].sid = msgs[i].sid
              /\ claimNext(msgs', msgs[i].sid) \in 1..i
         ELSE msgs'[i] = msgs[i]]_vars

\* The startup reset has returned one item and left a freshly claimed one in
\* processing.
C4_Witness ==
  /\ life.pc = "coreReady"
  /\ \E i, j \in ItemIds(msgs) :
       /\ msgs[i].status = "pending" /\ msgs[i].claimed
       /\ msgs[j].status = "processing" /\ msgs[j].age <= 5 * 60 * 1000
       /\ \A t \in TaskIds : task[t].sid = 0

\* C8: with a backend that succeeds on every call, a session whose processor
\* has drained its queue and left has all its items completed, status
\* completed, no processor attached and no pending item.
C8_DrainCompletesAll ==
  \A s \in Sessions :
    (dbStatus[s] = "completed" /\ LiveTasks(task, s) = {}) =>
       /\ \A i \in ItemsOf(s) : msgs[i].status = "completed"
       /\ ~HasGenerator(sessions, s)
       /\ getPendingCount(msgs, s) = 0

\* C9: one call of processPendingQueues with room for a session resets the
\* item a dead processor left in processing beyond the threshold, starts a
\* processor for its session and counts it.
C9_PassRecoversStuck ==
  [][\A p \in Passes : \A i \in ItemIds(msgs) :
       (/\ BeginStep(p)
        /\ ppq'[p].limit >= 1
        /\ StuckOrphan(i)
        /\ LiveTasks(task, msgs[i].sid) = {}
        /\ \A s \in Sessions \ {msgs[i].sid} : PendingOf(msgs, s) = {}) =>
          /\ msgs'[i].status = "pending"
          /\ LiveTasks(task', msgs[i].sid) # {}
          /\ ppq'[p].started = 1
          /\ ppq'[p].ids = <<msgs[i].sid>>]_vars

C11_PeriodicPassRestarts ==
  [][/\ (life.pc = "coreReady" /\ life'.pc = "ready") =>
          (ppq'["startup"].pc # "idle" /\ ppq'["startup"].limit = 50)
     /\ PeriodicStep =>
          \A s \in Sessions :
            (PendingOf(msgs', s) # {} /\ LiveTasks(task, s) = {}) =>
               LiveTasks(task', s) # {}]_vars

CancelStep(c) == shut.call[c].pc = "cancel" /\ shut'.call[c].pc = "drain"
DrainEndStep(c) == shut.call[c].pc = "drain" /\ shut'.call[c].pc = "listener"

\* C13: at the cancellation step of a shutdown every tracked session and
\* every live processor is cancelled; the drain wait ends with every
\* processor detached or else at the timeout.
C13_EveryProcessorCancelled ==
  [][\A c \in Calls :
       /\ CancelStep(c) =>
            /\ \A s \in Sessions : sessions[s].tracked => sessions'[s].aborted
            /\ \A t \in TaskIds : task[t].sid # 0 => task'[t].aborted
       /\ DrainEndStep(c) =>
            (AnyLiveTask(task') => shut'.call[c].timedOut)]_vars

\* C13: a shutdown call always completes: while the process runs, a call in
\* its drain wait can end it, and a call past it can close the listener.
C13_ShutdownCompletes ==
  \A c \in Calls :
    ProcessRunning =>
      /\ shut.call[c].pc = "cancel" => ENABLED ShutdownCancel(c)
      /\ shut.call[c].pc = "drain" => ENABLED ShutdownDrained(c)
      /\ shut.call[c].pc = "listener" => ENABLED ShutdownCloseListener(c)

\* Scenario E: two sessions were cancelled by a shutdown, one processor has
\* detached, the other has not, and the call has returned at the timeout.
C13_Witness ==
  \E c \in Calls, s1, s2 \in Sessions :
    /\ s1 # s2
    /\ shut.call[c].pc = "done"
    /\ shut.call[c].timedOut
    /\ sessions[s1].aborted /\ LiveTasks(task, s1) # {}
    /\ sessions[s2].aborted /\ sessions[s2].tracked /\ LiveTasks(task, s2) = {}

\* C13: shutdown always completes, every live processor having been cancelled.
C13_ShutdownCompletesCancelled ==
  []C13_ShutdownCompletes /\ C13_EveryProcessorCancelled

CallStartStep(c) == shut.call[c].pc = "idle" /\ shut'.call[c].pc = "cancel"
ListenerCloseStep(c) == shut.call[c].pc = "listener" /\ shut'.call[c].pc = "done"

\* C14: the steps of a shutdown occur in the order timer stopped,
\* cancellation signalled, drain wait, store closed, listener closed; the
\* store is closed only when no processor is live or the drain timed out.
C14_ShutdownOrder ==
  [][\A c \in Calls :
       /\ shut'.call[c].pc # shut.call[c].pc =>
            \/ CallStartStep(c) /\ ~life'.interval
            \/ CancelStep(c)
            \/ DrainEndStep(c)
            \/ ListenerCloseStep(c)
            \/ shut'.call[c].pc = "idle"
       /\ shut'.timerStops > shut.timerStops => \E d \in Calls : CallStartStep(d)
       /\ shut'.storeCloses > shut.storeCloses =>
            \E d \in Calls : /\ DrainEndStep(d)
                             /\ ~AnyLiveTask(task) \/ shut'.call[d].timedOut
       /\ shut'.listenerCloses > shut.listenerCloses =>
            \E d \in Calls : ListenerCloseStep(d)]_vars

\* A shutdown that found the timer set and a processor live has gone through
\* its steps: the processor detached, the store and the listener are closed.
C14_Witness ==
  \E c \in Calls :
    /\ shut.call[c].pc = "done"
    /\ ~shut.call[c].timedOut
    /\ shut.timerStops = 1
    /\ shut.storeCloses = 1
    /\ shut.listenerCloses = 1
    /\ \E s \in Sessions : sessions[s].tracked /\ sessions[s].aborted
    /\ ProcessRunning

ExitStep == life.pc # "stopped" /\ life'.pc = "stopped"

\* C15: the process exits only after a shutdown sequence has completed its
\* drain, and never while a processor is live and has not been cancelled.
C15_ExitOnlyAfterDrain ==
  [][ExitStep =>
       /\ \E c \in Calls : shut.call[c].pc \in {"listener", "done"}
       /\ \A t \in TaskIds : task[t].sid # 0 => task[t].aborted]_vars

ShutdownBegun == \E c \in Calls : shut.call[c].pc # "idle"
fullyReady == life.pc = "ready"
\* The place of a lifecycle state in starting -> coreReady -> fullyReady ->
\* stopped; a failed MCP connection leaves the service coreReady.
LifeRank(pc) ==
  CASE pc = "new" -> 0
    [] pc = "listening" -> 1
    [] pc \in {"coreReady", "mcpFailed"} -> 2
    [] pc = "ready" -> 3
    [] OTHER -> 4

\* C16: within one process the lifecycle state moves only forward, and once
\* a shutdown has begun the service does not become coreReady or fullyReady.
C16_LifecycleForwardOnly ==
  [][life'.pc # "new" =>
       /\ LifeRank(life'.pc) >= LifeRank(life.pc)
       /\ ShutdownBegun =>
            /\ coreReady' => coreReady
            /\ fullyReady' => fullyReady]_vars

StoreOpenStep == ~shut.storeOpen /\ shut'.storeOpen
McpStep == life.pc = "coreReady" /\ life'.pc \in {"ready", "mcpFailed"}
\* The listener of this process has been bound (and may have been closed by a
\* shutdown since).
ListenerBound == shut.listening \/ shut.listenerCloses > 0

\* C17: opening the store, the stuck-item reset, the MCP connection and the
\* first recovery pass each happen only after the listener has been bound.
C17_ListenerBoundFirst ==
  [][(\/ StoreOpenStep
      \/ msgs' # msgs /\ life'.pc = "coreReady" /\ life.pc # "coreReady"
      \/ McpStep
      \/ BeginStep("startup")) => ListenerBound]_vars

\* The service is reachable, its store open, the MCP connection made and the
\* first recovery pass under way.
C17_Witness ==
  /\ Listening
  /\ StoreOpen
  /\ life.pc = "ready"
  /\ ppq["startup"].pc # "idle"

\* C18: a request that arrived before the service was ready is held, then
\* served by the initialized handler, or answered 503; it never ends
\* otherwise, also when initialization fails or does not complete.
C18_HeldServedOrUnavailable ==
  \A r \in Requests :
    /\ req[r] \in {"none", "waiting", "served", "unavailable"}
    /\ req[r] = "served" => searchRoutes

NonTerminal(m) == {i \in ItemIds(m) : m[i].status \notin {"completed", "failed"}}
\* The status as the specification derives it: some processor task is live;
\* the number of work items not yet completed or failed.
DerivedStatus(tk, m) ==
  [isProcessing |-> AnyLiveTask(tk), queueDepth |-> Cardinality(NonTerminal(m))]
Delivered(o) ==
  sse'.clients[o].connected /\ sse'.clients[o].n # sse.clients[o].n
Answered == ProcessRunning' /\ sse'.health.n # sse.health.n

\* C19: every status answered to the status query or delivered by a
\* processing_status broadcast is the derived status of the moment: a
\* processor task is live iff isProcessing, and queueDepth counts the pending
\* and processing items.
C19_StatusIsDerived ==
  [][/\ \A o \in Observers :
          Delivered(o) => sse'.clients[o].status = DerivedStatus(task', msgs')
     /\ Answered => sse'.health.status = DerivedStatus(task', msgs')]_vars

\* An observer has been sent a second event, with a processor live and one
\* item outstanding, and a status query was answered with two outstanding.
C19_Witness ==
  /\ \E o \in Observers :
       /\ sse.clients[o].connected
       /\ sse.clients[o].n = 0
       /\ sse.clients[o].status.isProcessing
       /\ sse.clients[o].status.queueDepth = 1
  /\ sse.health.n = 1
  /\ sse.health.status.queueDepth = 2

ConnectStep(o) == ~sse.clients[o].connected /\ sse'.clients[o].connected

TaskExitStep(t) == task[t].sid # 0 /\ task'[t].sid = 0 /\ ProcessRunning'
PublishStep == (\E t \in TaskIds : TaskExitStep(t)) \/ (\E o \in Observers : ConnectStep(o))

\* C21: a published event reaches every subscriber whose connection is
\* sound, also when the delivery to another subscriber fails; the publishing
\* step completes all the same.
C21_PublishReachesSoundSubscribers ==
  [][PublishStep =>
       \A o \in Observers :
         (sse'.clients[o].connected /\ ~sse'.clients[o].broken) => Delivered(o)]_vars

\* The first observer's connection is broken; the second has been sent a
\* second event: the status after a processor exit, with one item outstanding.
C21_Witness ==
  /\ sse.clients[1].connected /\ sse.clients[1].broken
  /\ sse.clients[2].connected /\ sse.clients[2].n = 0
  /\ sse.clients[1].status # sse.clients[2].status
  /\ sse.clients[2].status.queueDepth = 1

\* The fixed priority order of the backends that need selecting.
AgentPriority == <<"mistral", "openrouter", "gemini">>
Eligible(st) ==
  {k \in 1..Len(AgentPriority) :
     AgentPriority[k] \in st.selected /\ AgentPriority[k] \in st.available}
FirstEligible(st) ==
  IF Eligible(st) = {} THEN "sdk"
  ELSE AgentPriority[CHOOSE k \in Eligible(st) : \A j \in Eligible(st) : k <= j]

\* C22: every start runs the first backend in the order Mistral, OpenRouter,
\* Gemini that is selected and available under the settings of that moment,
\* else the SDK backend, whatever earlier starts ran.
C22_FirstAvailableBackend ==
  [][\A t \in TaskIds : Started(t) => task'[t].agent = FirstEligible(settings)]_vars

\* Two processors run at once on different backends, chosen under different
\* settings; now all three backends are selected and available.
C22_Witness ==
  \E t, u \in TaskIds :
    /\ task[t].sid # 0 /\ task[t].agent = "sdk"
    /\ task[u].sid # 0 /\ task[u].agent = "gemini"
    /\ settings.selected = Providers /\ settings.available = Providers

StatusOf(se, m) ==
  [isProcessing |-> isAnySessionProcessing(se), queueDepth |-> getTotalActiveWork(m)]

\* C23: detaching a session's processor twice leaves the registry and the
\* status (isProcessing, queueDepth) as detaching it once does.
C23_DetachIdempotent ==
  \A s \in Sessions :
    LET once == FinallyDetach(sessions, s)
        twice == FinallyDetach(once, s)
    IN /\ twice = once
       /\ StatusOf(twice, msgs) = StatusOf(once, msgs)

\* The only live processor is attached to a session with an item in flight:
\* detaching it changes the registry and the status.
C23_Witness ==
  \E s \in Sessions :
    /\ HasGenerator(sessions, s)
    /\ FinallyDetach(sessions, s) # sessions
    /\ StatusOf(FinallyDetach(sessions, s), msgs) # StatusOf(sessions, msgs)
    /\ getTotalActiveWork(msgs) > 0

LocalAddresses == {"127.0.0.1", "::1", "::ffff:127.0.0.1"}
\* The header is "Bearer " followed by exactly the configured token.
CarriesConfiguredToken ==
  /\ auth.header.present
  /\ auth.header.value = BearerPrefix \o auth.configuredToken
  /\ auth.configuredToken # <<>>

\* C24: a request from a non-local address is passed on only with a Bearer
\* token equal to the configured, non-empty token and is answered 401
\* otherwise; a request from a local address is always passed on.
C24_RemoteNeedsConfiguredToken ==
  auth.outcome # "none" =>
    IF auth.ip \in LocalAddresses
    THEN auth.outcome = "next" /\ auth.isLocal
    ELSE /\ auth.outcome \in {"next", "401"}
         /\ auth.outcome = "next" <=> CarriesConfiguredToken
         /\ ~auth.isLocal

\* A remote request with no token configured and an empty Bearer token has
\* been answered 401.
C24_Witness ==
  /\ auth.ip = "10.0.0.5"
  /\ auth.header = [present |-> TRUE, value |-> BearerPrefix]
  /\ auth.configuredToken = <<>>
  /\ auth.outcome = "401"

\* C25: when a processor task exits, by whichever path, its session is left
\* without a processor handle in that step, and the status computed after the
\* detach is broadcast to the observers.
C25_ExitDetachesAndBroadcasts ==
  [][\A t \in TaskIds :
       TaskExitStep(t) =>
         /\ sessions'[task[t].sid].gen = 0
         /\ \A o \in Observers :
              (sse'.clients[o].connected /\ ~sse'.clients[o].broken) =>
                 /\ Delivered(o)
                 /\ sse'.clients[o].status = StatusOf(sessions', msgs')]_vars

\* A processor has exited on a backend rejection, nothing having been
\* cancelled: its item is still processing, and the observer has been sent
\* the status after the detach.
C25_Witness ==
  /\ \E i \in ItemIds(msgs) : Orphaned(i)
  /\ \A s \in Sessions : ~sessions[s].aborted /\ sessions[s].ctrl = 0
  /\ ~AnyLiveTask(task)
  /\ \E o \in Observers :
       /\ sse.clients[o].connected
       /\ sse.clients[o].n = 0
       /\ sse.clients[o].status = [isProcessing |-> FALSE, queueDepth |-> 1]

BackendFailStep(t) ==
  /\ task[t].pc = "backend"
  /\ msgs'[task[t].item].retry = msgs[task[t].item].retry + 1

\* C26: a backend failure on an item is turned into markFailed for that item
\* alone, and the processor stays in its loop, at the claim of the next item.
C26_FailureKeepsLoop ==
  [][\A t \in TaskIds :
       BackendFailStep(t) =>
         /\ msgs' = markFailed(msgs, task[t].item)
         /\ \A i \in ItemIds(msgs) : i # task[t].item => msgs'[i] = msgs[i]
         /\ task'[t].sid = task[t].sid
         /\ task'[t].pc = "claim"
         /\ sessions'[task[t].sid].gen = sessions[task[t].sid].gen]_vars

\* An item has failed for good and the same processor, never cancelled or
\* restarted, has gone on to the session's next item.
C26_Witness ==
  \E i, j \in ItemIds(msgs), t \in TaskIds :
    /\ i < j
    /\ msgs[i].sid = msgs[j].sid
    /\ msgs[i].status = "failed" /\ msgs[i].retry = MaxRetries
    /\ task[t].sid = msgs[j].sid /\ task[t].item = j /\ task[t].pc = "backend"
    /\ msgs[j].status = "processing"

CancelObservedStep(t) ==
  task[t].pc = "backend" /\ task[t].aborted /\ task'[t].sid = 0 /\ ProcessRunning'

\* C27: when a processor stops on a cancellation seen during the backend
\* call, its item stays processing with its retry count; an item in
\* processing that no processor holds changes only by being reset to pending
\* as stuck, retry count kept.
C27_CancelledItemStaysProcessing ==
  [][/\ \A t \in TaskIds :
          CancelObservedStep(t) =>
            /\ msgs'[task[t].item].status = "processing"
            /\ msgs'[task[t].item].retry = msgs[task[t].item].retry
     /\ \A i \in ItemIds(msgs) :
          (Orphaned(i) /\ (msgs'[i].status # "processing"
                            \/ msgs'[i].retry # msgs[i].retry)) =>
             /\ IsStuck(msgs[i], STUCK_THRESHOLD_MS)
             /\ msgs'[i].status = "pending"
             /\ msgs'[i].retry = msgs[i].retry]_vars

\* A cancelled processor has gone and left its item in processing; the
\* session is still tracked with its signalled handle.
C27_Witness ==
  \E i \in ItemIds(msgs) :
    /\ Orphaned(i)
    /\ sessions[msgs[i].sid].tracked
    /\ sessions[msgs[i].sid].aborted
    /\ sessions[msgs[i].sid].gen = 0
    /\ msgs[i].retry = 1

ClaimStep(t) == task[t].pc = "claim" /\ task'[t].pc = "backend"
\* A processor whose handle has been signalled can take its exit.
CancelledCanExit ==
  \A t \in TaskIds :
    (task[t].sid # 0 /\ task[t].aborted) =>
      /\ task[t].pc = "claim" => ENABLED TaskClaim(t)
      /\ task[t].pc = "backend" => ENABLED TaskCancelled(t)
\* A processor whose handle has been signalled claims nothing, and the step it
\* takes is its exit with the session's handle cleared.
CancelledClaimsNothing ==
  [][\A t \in TaskIds :
       (task[t].sid # 0 /\ task[t].aborted) =>
         /\ ~ClaimStep(t)
         /\ task'[t] # task[t] =>
              /\ task'[t].sid = 0
              /\ ProcessRunning' => sessions'[task[t].sid].gen = 0]_vars

\* C28: once a session's cancellation handle is signalled its processor
\* claims no further item, and its next step, always possible, is to exit
\* and detach.
C28_CancelledStopsAndExits == []CancelledCanExit /\ CancelledClaimsNothing

\* A cancelled processor is at the head of its loop with a pending item of
\* its session waiting.
C28_Witness ==
  \E t \in TaskIds :
    /\ task[t].sid # 0
    /\ task[t].aborted
    /\ task[t].pc = "claim"
    /\ PendingOf(msgs, task[t].sid) # {}

\* C29: a session's processor handle is set exactly when a processor task of
\* that session is live, and it is the handle of that task.
C29_HandleIffLiveTask ==
  \A s \in Sessions :
    /\ sessions[s].gen # 0 <=> LiveTasks(task, s) # {}
    /\ sessions[s].gen # 0 => LiveTasks(task, s) = {sessions[s].gen}

\* One session has a processor running under its handle; another, still
\* tracked, has lost its processor to a cancellation and has no handle.
C29_Witness ==
  \E s1, s2 \in Sessions :
    /\ sessions[s1].gen # 0 /\ task[sessions[s1].gen].pc = "backend"
    /\ sessions[s2].tracked /\ sessions[s2].aborted /\ sessions[s2].gen = 0
    /\ \E i \in ItemIds(msgs) : msgs[i].sid = s2 /\ Orphaned(i)

\* C30: once a shutdown has been invoked, initialization and the recovery
\* pass of the same process start no processor task (submissions arriving
\* at the still open listener are left aside) and the periodic cleanup timer
\* is not active afterwards.
C30_NoStartNoTimerAfterShutdown ==
  [][(ShutdownBegun /\ life'.pc # "new") =>
       /\ ~SubmitStep => \A t \in TaskIds : ~Started(t)
       /\ ~life'.interval]_vars

\* A reset: an item leaves processing for pending with its retry count kept.
ResetOf(i) ==
  /\ msgs[i].status = "processing"
  /\ msgs'[i].status = "pending"
  /\ msgs'[i].retry = msgs[i].retry
WorkingOn(tk, i) == {t \in TaskIds : tk[t].sid # 0 /\ tk[t].item = i}

\* C31: resetStuckMessages never returns to pending an item a live processor
\* is working on; no item is in the hands of two backend calls at once, an
\* item is handed to the backend only when no call for it is running, and a
\* completed item is never touched again.
C31_ResetSparesLiveItems ==
  /\ [][\A i \in ItemIds(msgs) : ResetOf(i) => WorkingOn(task, i) = {}]_vars
  /\ [](\A i \in ItemIds(msgs) : Cardinality(WorkingOn(task, i)) <= 1)
  /\ [][\A i \in ItemIds(msgs) :
          /\ (msgs[i].status # "processing" /\ msgs'[i].status = "processing") =>
               /\ msgs[i].status = "pending"
               /\ WorkingOn(task, i) = {}
          /\ msgs[i].status = "completed" => msgs'[i] = msgs[i]]_vars

\* The startup reset has returned an item its dead processor had claimed; an
\* item claimed in the new process is in the backend's hands, and an earlier
\* one stays completed.
C31_Witness ==
  /\ life.pc \in {"coreReady", "ready"}
  /\ \E i, j \in ItemIds(msgs) :
       /\ msgs[i].status = "pending" /\ msgs[i].claimed /\ msgs[i].retry = 0
       /\ msgs[j].status = "completed"

\* C32: markFailed acts on an item in processing and raises its retry count
\* by exactly one; below 3 the item is pending again, within reach of
\* claimNext and without a failure time; at 3 it is failed for good with its
\* failure time set.
C32_MarkFailedRetriesOrFails ==
  [][\A i \in ItemIds(msgs) :
       msgs'[i].retry # msgs[i].retry =>
         /\ msgs[i].status = "processing"
         /\ msgs'[i].retry = msgs[i].retry + 1
         /\ IF msgs'[i].retry < 3
            THEN /\ msgs'[i].status = "pending"
                 /\ ~msgs'[i].failedAt
                 /\ claimNext(msgs', msgs[i].sid) \in 1..i
            ELSE /\ msgs'[i].status = "failed"
                 /\ msgs'[i].failedAt
                 /\ claimNext(msgs', msgs[i].sid) # i]_vars

\* An item has failed for the third time: it is failed for good with its
\* failure time, and its processor is back at the head of its loop with
\* nothing of that item to claim.
C32_Witness ==
  \E j \in ItemIds(msgs), t \in TaskIds :
    /\ msgs[j].status = "failed" /\ msgs[j].retry = 3 /\ msgs[j].failedAt
    /\ task[t].sid = msgs[j].sid /\ task[t].pc = "claim"
    /\ claimNext(msgs, msgs[j].sid) # j

\* The positions of its scan a pass goes over in one step, and those of them
\* whose session has a live processor when the step is taken.
PassOf(p) == ppq'[p] # ppq[p] /\ ppq'[p].pc # "idle"
Visited(p) == (IF BeginStep(p) THEN 1 ELSE ppq[p].pos)..(ppq'[p].pos - 1)
VisitedLive(p) ==
  {k \in Visited(p) : LiveTasks(task, ppq'[p].orphanedSessionIds[k]) # {}}
VisitedFailing(p) ==
  {k \in Visited(p) \ VisitedLive(p) : ppq'[p].orphanedSessionIds[k] \in ppq'[p].failing}

\* C33: a recovery pass never starts a processor for a session that has a
\* live one: each such session it comes to is counted as skipped, is not
\* among the started sessions, keeps its processor untouched, and takes
\* nothing from the session limit.
C33_PassSkipsLiveSessions ==
  [][\A p \in Passes :
       PassOf(p) =>
         LET before == IF BeginStep(p) THEN NoPass ELSE ppq[p]
             scan == ppq'[p].orphanedSessionIds
         IN /\ ppq'[p].skipped =
                 before.skipped + Cardinality(VisitedLive(p) \cup VisitedFailing(p))
            /\ ppq'[p].started =
                 before.started
                   + Cardinality(Visited(p) \ (VisitedLive(p) \cup VisitedFailing(p)))
            /\ \A k \in VisitedLive(p) :
                 /\ \A n \in 1..Len(ppq'[p].ids) : ppq'[p].ids[n] # scan[k]
                 /\ LiveTasks(task', scan[k]) = LiveTasks(task, scan[k])
                 /\ sessions'[scan[k]].gen = sessions[scan[k]].gen
            /\ (ppq'[p].pc = "done" /\ ppq'[p].pos <= Len(scan)) =>
                 ppq'[p].started >= ppq'[p].limit]_vars

\* A pass with room for one session has skipped the first session of its
\* scan, whose processor is live, and started the second.
C33_Witness ==
  \E p \in Passes :
    /\ ppq[p].limit = 1
    /\ ppq[p].skipped = 1
    /\ ppq[p].started = 1
    /\ Len(ppq[p].orphanedSessionIds) = 2
    /\ ppq[p].ids = <<ppq[p].orphanedSessionIds[2]>>
    /\ \A s \in Sessions : Cardinality(LiveTasks(task, s)) = 1

\* C34: stale cleanup marks a session failed only when the session has no
\* live processor and its last activity is older than the threshold, and a
\* pending item is failed by it only together with its session.
C34_StaleCleanupSparesActive ==
  [][/\ \A s \in Sessions :
          (dbStatus[s] # "failed" /\ dbStatus'[s] = "failed") =>
             /\ LiveTasks(task, s) = {}
             /\ sessions[s].tracked => sessions[s].idle > 30 * 60 * 1000
     /\ \A i \in ItemIds(msgs) :
          (msgs[i].status = "pending" /\ msgs'[i].status = "failed") =>
             (dbStatus[msgs[i].sid] # "failed" /\ dbStatus'[msgs[i].sid] = "failed")]_vars

\* C35: once stale cleanup has marked a session failed, no recovery pass
\* starts a processor for it, and no item of it that had been claimed before
\* (left in processing, reset later) is claimed again.
C35_FailedSessionStaysDead ==
  [][\A s \in Sessions :
       (dbStatus[s] = "failed" /\ ~SubmitStep) =>
          /\ \A t \in TaskIds : Started(t) => task'[t].sid # s
          /\ \A i \in ItemsOf(s) :
               (msgs[i].claimed /\ msgs[i].status = "pending") =>
                  msgs'[i].status # "processing"]_vars

\* C36: a failure of the stale-session cleanup, or a failure while one
\* session is recovered, does not end the pass: the pass goes on to its scan
\* and its start loop, a failing session is counted and passed over, the
\* loop ends only at the end of the scan or at the session limit, and the
\* result is there for the caller.
C36_FailuresDoNotAbortPass ==
  /\ [][\A p \in Passes :
          /\ BeginStep(p) =>
               /\ ppq'[p].pc \in {"sleep", "done"}
               /\ ppq'[p].orphanedSessionIds = getSessionsWithPendingMessages(msgs')
               /\ ppq'[p].total = Len(ppq'[p].orphanedSessionIds)
          /\ PassOf(p) =>
               \A k \in VisitedFailing(p) :
                 /\ LiveTasks(task', ppq'[p].orphanedSessionIds[k]) = {}
                 /\ \A n \in 1..Len(ppq'[p].ids) :
                      ppq'[p].ids[n] # ppq'[p].orphanedSessionIds[k]]_vars
  /\ [](\A p \in Passes :
          ppq[p].pc = "done" =>
            /\ \/ ppq[p].pos > Len(ppq[p].orphanedSessionIds)
               \/ ppq[p].started >= ppq[p].limit
            /\ ENABLED PPQReturn(p))

\* A pass whose cleanup threw after marking the stale sessions failed, and
\* whose first session could not be recovered, has started the second
\* session and finished.
C36_Witness ==
  \E p \in Passes :
    /\ ppq[p].pc = "done"
    /\ ppq[p].fault = "messages"
    /\ Len(ppq[p].orphanedSessionIds) = 2
    /\ ppq[p].failing = {ppq[p].orphanedSessionIds[1]}
    /\ ppq[p].skipped = 1
    /\ ppq[p].ids = <<ppq[p].orphanedSessionIds[2]>>
    /\ dbStatus[ppq[p].orphanedSessionIds[1]] = "failed"
    /\ PendingOf(msgs, ppq[p].orphanedSessionIds[1]) # {}

\* Nothing is in progress: no processor task is live and no pass is under way.
Quiescent ==
  /\ ProcessRunning
  /\ ~AnyLiveTask(task)
  /\ \A p \in Passes : ppq[p].pc \in {"idle", "done"}

\* C37: whenever the system is quiescent, the status last broadcast to a
\* connected observer is the current derived status.
C37_QuiescentStatusIsCurrent ==
  \A o \in Observers :
    (Quiescent /\ sse.clients[o].connected /\ ~sse.clients[o].broken) =>
       sse.clients[o].status = DerivedStatus(task, msgs)

\* The place of a session in a scan without repetitions.
PlaceIn(scan, s) == CHOOSE k \in 1..Len(scan) : scan[k] = s

\* C38: in the result of every processPendingQueues call, sessionsStarted is
\* the length of startedSessionIds and at most sessionLimit (0 when the limit
\* is 0 or less), startedSessionIds has no duplicate and follows the order of
\* the scan, and sessionsStarted + sessionsSkipped is at most
\* totalPendingSessions.
C38_ResultRecordConsistent ==
  \A p \in Passes :
    ppq[p].pc # "idle" =>
      LET r == ppq[p] IN
        /\ r.started = Len(r.ids)
        /\ r.limit <= 0 => r.started = 0
        /\ r.limit > 0 => r.started <= r.limit
        /\ \A n, m \in 1..Len(r.ids) : n # m => r.ids[n] # r.ids[m]
        /\ \A n \in 1..Len(r.ids) : \E k \in 1..Len(r.orphanedSessionIds) :
             r.orphanedSessionIds[k] = r.ids[n]
        /\ \A n, m \in 1..Len(r.ids) :
             n < m => PlaceIn(r.orphanedSessionIds, r.ids[n])
                        < PlaceIn(r.orphanedSessionIds, r.ids[m])
        /\ r.started + r.skipped <= r.total
        /\ r.total = Len(r.orphanedSessionIds)

\* The startup pass has started both sessions of its scan, in its order; a
\* call with a negative limit over the same two sessions has started none.
C38_Witness ==
  /\ ppq["startup"].pc = "done"
  /\ ppq["startup"].started = 2
  /\ ppq["startup"].ids = ppq["startup"].orphanedSessionIds
  /\ ppq["manual"].pc = "done"
  /\ ppq["manual"].limit < 0
  /\ ppq["manual"].total = 2
  /\ ppq["manual"].started = 0

\* C39: with a backend that fails on every call and no new submission, an
\* item is handed to the backend only while its retry count is below 3 (its
\* third failure makes it failed for good), and every processor ends: it
\* leaves its loop with nothing pending in its session and detaches.
C39_FailingBackendTerminates ==
  /\ [](\A i \in ItemIds(msgs) :
          /\ msgs[i].retry <= 3
          /\ (\E t \in TaskIds : task[t].item = i /\ task[t].pc = "backend") =>
               msgs[i].retry <= 2
          /\ msgs[i].retry = 3 => msgs[i].status = "failed")
  /\ [][\A t \in TaskIds :
          (task[t].sid # 0 /\ task'[t].sid = 0) =>
             /\ PendingOf(msgs', task[t].sid) = {}
             /\ sessions'[task[t].sid].gen = 0]_vars
  /\ \A t \in TaskIds : (task[t].sid # 0) ~> (task[t].sid = 0)

\* Both items of a session have failed for good, three calls each, and the
\* session's processor has drained its queue and gone.
C39_Witness ==
  /\ Len(msgs) = 2
  /\ msgs[1].sid = msgs[2].sid
  /\ \A i \in ItemIds(msgs) : msgs[i].status = "failed" /\ msgs[i].retry = 3
  /\ dbStatus[msgs[1].sid] = "completed"
  /\ \A t \in TaskIds : task[t].sid = 0

\* C40: when an observer connects, the snapshot goes to that observer only:
\* an observer that is already connected receives no event from the
\* connection of another.
C40_SnapshotOnlyToNewObserver ==
  [][\A o, q \in Observers :
       (ConnectStep(o) /\ q # o /\ sse.clients[q].connected) =>
          sse'.clients[q] = sse.clients[q]]_vars

====
